---- MODULE Spec2Model ----
(***************************************************************************)
(* Receipt pipeline of Datavalley_Receipt_Analysis_Agent_OCR:              *)
(*   - AgenticReceiptProcessor._extract_receipt_info (field extractor),    *)
(*   - AgenticReceiptProcessor.agent_1_extract_data / agent_2_aggregate_   *)
(*     data / run_complete_demo (setup_script.py),                         *)
(*   - ReceiptProcessingTools.aggregate_data (receipt_processor.py).       *)
(* Python str values are TLA+ strings, read character by character with    *)
(* SubSeq; Python float values are IEEE-754 binary64 numbers, held exactly *)
(* as signed multiples of 2^-FracBits.                                     *)
(***************************************************************************)
EXTENDS Integers, Sequences, FiniteSets, TLC

(***************************************************************************)
(* Python str methods used by the source.                                  *)
(***************************************************************************)
Ch(s, i) == SubSeq(s, i, i)

LowerAlpha == "abcdefghijklmnopqrstuvwxyz"

UpperAlpha == "ABCDEFGHIJKLMNOPQRSTUVWXYZ"

Digits == {"0", "1", "2", "3", "4", "5", "6", "7", "8", "9"}

Whitespace == {" ", "\t", "\n", "\r"}

LowerSet == {Ch(LowerAlpha, k) : k \in 1..26}

UpperSet == {Ch(UpperAlpha, k) : k \in 1..26}

UpperOf == [c \in LowerSet |-> Ch(UpperAlpha, CHOOSE k \in 1..26 : Ch(LowerAlpha, k) = c)]

LowerOf == [c \in UpperSet |-> Ch(LowerAlpha, CHOOSE k \in 1..26 : Ch(UpperAlpha, k) = c)]

RECURSIVE upper(_)
upper(s) ==
    IF s = "" THEN ""
    ELSE (IF Head(s) \in LowerSet THEN UpperOf[Head(s)] ELSE Head(s)) \o upper(Tail(s))

RECURSIVE lower(_)
lower(s) ==
    IF s = "" THEN ""
    ELSE (IF Head(s) \in UpperSet THEN LowerOf[Head(s)] ELSE Head(s)) \o lower(Tail(s))

RECURSIVE lstrip(_)
lstrip(s) == IF s # "" /\ Head(s) \in Whitespace THEN lstrip(Tail(s)) ELSE s

RECURSIVE rstrip(_)
rstrip(s) ==
    IF s # "" /\ Ch(s, Len(s)) \in Whitespace THEN rstrip(SubSeq(s, 1, Len(s) - 1)) ELSE s

strip(s) == rstrip(lstrip(s))

\* sub in s
Contains(s, sub) == \E i \in 1..(Len(s) - Len(sub) + 1) : SubSeq(s, i, i + Len(sub) - 1) = sub

startswith(s, prefix) == Len(s) >= Len(prefix) /\ SubSeq(s, 1, Len(prefix)) = prefix

\* s.replace(c, '') for a one-character c
RECURSIVE replace(_, _)
replace(s, c) ==
    IF s = "" THEN ""
    ELSE (IF Head(s) = c THEN "" ELSE Head(s)) \o replace(Tail(s), c)

isalpha(s) == s # "" /\ \A i \in 1..Len(s) : Ch(s, i) \in (LowerSet \cup UpperSet)

\* s.split('\n'): the pieces between newlines, in order (one piece for "")
RECURSIVE SplitFrom(_, _)
SplitFrom(s, start) ==
    LET nl == {i \in start..Len(s) : Ch(s, i) = "\n"} IN
    IF nl = {} THEN <<SubSeq(s, start, Len(s))>>
    ELSE LET i == CHOOSE m \in nl : \A o \in nl : m <= o
         IN <<SubSeq(s, start, i - 1)>> \o SplitFrom(s, i + 1)

split(s) == SplitFrom(s, 1)

(***************************************************************************)
(* re.findall(r'\$?(\d+\.\d+)', line): the captured digit groups of the    *)
(* non-overlapping matches, left to right.                                 *)
(***************************************************************************)
RECURSIVE DigitRunEnd(_, _)
\* index just after the maximal run of digits starting at i (i if none)
DigitRunEnd(s, i) ==
    IF i <= Len(s) /\ Ch(s, i) \in Digits THEN DigitRunEnd(s, i + 1) ELSE i

\* end (exclusive) of a match of \d+\.\d+ at i, or 0
AmountEnd(s, i) ==
    LET a == DigitRunEnd(s, i) IN
    IF a > i /\ a <= Len(s) /\ Ch(s, a) = "." /\ DigitRunEnd(s, a + 1) > a + 1
    THEN DigitRunEnd(s, a + 1) ELSE 0

RECURSIVE FindAllFrom(_, _)
FindAllFrom(s, i) ==
    IF i > Len(s) THEN <<>>
    ELSE LET g == IF Ch(s, i) = "$" /\ AmountEnd(s, i + 1) # 0 THEN i + 1 ELSE i
             e == AmountEnd(s, g)
         IN IF e # 0 THEN <<SubSeq(s, g, e - 1)>> \o FindAllFrom(s, e)
            ELSE FindAllFrom(s, i + 1)

findall(s) == FindAllFrom(s, 1)

(***************************************************************************)
(* AgenticReceiptProcessor._extract_receipt_info                           *)
(***************************************************************************)
SkipTokens == {"date:", "time:", "order:", "store #", "transaction"}

KnownBrands == {"STARBUCKS", "WAL-MART", "WALMART", "MCDONALD"}

HeaderWindow == 5

NoExc == "none"

\* as IsSkipLine with no metadata token at all
IsSkipLine_Never(line) == FALSE

\* not any(skip in line.lower() for skip in [...])
IsSkipLine(line) == LET low == lower(line) IN \E skip \in SkipTokens : Contains(low, skip)

\* any(company in line.upper() for company in [...])
HasBrand(line) == LET up == upper(line) IN \E company \in KnownBrands : Contains(up, company)

\* the if / elif chain that canonicalises the brand
BrandOf(line) ==
    LET up == upper(line) IN
    IF Contains(up, "STARBUCKS") THEN "STARBUCKS"
    ELSE IF Contains(up, "WAL-MART") \/ Contains(up, "WALMART") THEN "WALMART"
    ELSE IF Contains(up, "MCDONALD") THEN "MCDONALDS"
    ELSE ""

\* line.replace(' ', '').replace('-', '').isalpha() and len(line) > 3
IsAlphaLine(line) == isalpha(replace(replace(line, " "), "-")) /\ Len(line) > 3

\* as CompanyScan with a letters-only line taken as it is written
RECURSIVE CompanyScan_NoUpper(_, _)
CompanyScan_NoUpper(lines, k) ==
    IF k > Len(lines) \/ k > HeaderWindow THEN ""
    ELSE LET line == strip(lines[k]) IN
         IF line # "" /\ ~IsSkipLine(line)
         THEN IF HasBrand(line) THEN BrandOf(line)
              ELSE IF IsAlphaLine(line) THEN line
              ELSE CompanyScan_NoUpper(lines, k + 1)
         ELSE CompanyScan_NoUpper(lines, k + 1)

\* as CompanyScan, but a brand line anywhere in the window goes before a letters-only line
CompanyScan_BrandFirst(lines, k) ==
    LET last == IF Len(lines) < HeaderWindow THEN Len(lines) ELSE HeaderWindow
        open == {j \in k..last : strip(lines[j]) # "" /\ ~IsSkipLine(strip(lines[j]))}
        brands == {j \in open : HasBrand(strip(lines[j]))}
        alphas == {j \in open : IsAlphaLine(strip(lines[j]))}
        first(S) == CHOOSE m \in S : \A o \in S : m <= o
    IN IF brands # {} THEN BrandOf(strip(lines[first(brands)]))
       ELSE IF alphas # {} THEN upper(strip(lines[first(alphas)]))
       ELSE ""

\* as CompanyScan with the letters-only test tried before the brand test
RECURSIVE CompanyScan_AlphaFirst(_, _)
CompanyScan_AlphaFirst(lines, k) ==
    IF k > Len(lines) \/ k > HeaderWindow THEN ""
    ELSE LET line == strip(lines[k]) IN
         IF line # "" /\ ~IsSkipLine(line)
         THEN IF IsAlphaLine(line) THEN upper(line)
              ELSE IF HasBrand(line) THEN BrandOf(line)
              ELSE CompanyScan_AlphaFirst(lines, k + 1)
         ELSE CompanyScan_AlphaFirst(lines, k + 1)

\* the company loop over lines[:5], from line k on; "" when no line breaks the loop
RECURSIVE CompanyScan(_, _)
CompanyScan(lines, k) ==
    IF k > Len(lines) \/ k > HeaderWindow THEN ""
    ELSE LET line == strip(lines[k]) IN
         IF line # "" /\ ~IsSkipLine(line)
         THEN IF HasBrand(line) THEN BrandOf(line)
              ELSE IF IsAlphaLine(line) THEN upper(line)
              ELSE CompanyScan(lines, k + 1)
         ELSE CompanyScan(lines, k + 1)

\* 'TOTAL:' in line or (line.startswith('TOTAL') and '$' in line), line upper-cased
IsTotalLine(line) ==
    Contains(line, "TOTAL:") \/ (startswith(line, "TOTAL") /\ Contains(line, "$"))

\* as TotalOfLine without the `if amounts:` guard: amounts[-1] of an empty list raises
TotalOfLine_Unguarded(line) ==
    LET amounts == findall(line) IN
    IF amounts # <<>>
    THEN [exc |-> NoExc, total_amount |-> amounts[Len(amounts)]]
    ELSE [exc |-> "IndexError", total_amount |-> ""]

\* as TotalOfLine taking amounts[0]
TotalOfLine_First(line) ==
    LET amounts == findall(line) IN
    IF amounts # <<>>
    THEN [exc |-> NoExc, total_amount |-> amounts[1]]
    ELSE [exc |-> NoExc, total_amount |-> ""]

\* amounts = re.findall(...); if amounts: total_amount = amounts[-1]
TotalOfLine(line) ==
    LET amounts == findall(line) IN
    IF amounts # <<>>
    THEN [exc |-> NoExc, total_amount |-> amounts[Len(amounts)]]
    ELSE [exc |-> NoExc, total_amount |-> ""]

\* as TotalScan without the break: a later total line replaces an earlier one
RECURSIVE TotalScan_NoBreak(_, _)
TotalScan_NoBreak(lines, k) ==
    IF k > Len(lines) THEN [exc |-> NoExc, total_amount |-> ""]
    ELSE LET line == upper(strip(lines[k]))
             later == TotalScan_NoBreak(lines, k + 1)
         IN IF IsTotalLine(line) /\ later.total_amount = "" THEN TotalOfLine(line) ELSE later

\* as TotalScan, but a total line without an amount does not end the loop
RECURSIVE TotalScan_SkipEmpty(_, _)
TotalScan_SkipEmpty(lines, k) ==
    IF k > Len(lines) THEN [exc |-> NoExc, total_amount |-> ""]
    ELSE LET line == upper(strip(lines[k])) IN
         IF IsTotalLine(line) /\ TotalOfLine(line).total_amount # "" THEN TotalOfLine(line)
         ELSE TotalScan_SkipEmpty(lines, k + 1)

\* the total loop over all lines, from line k on; it breaks at the first total line
RECURSIVE TotalScan(_, _)
TotalScan(lines, k) ==
    IF k > Len(lines) THEN [exc |-> NoExc, total_amount |-> ""]
    ELSE LET line == upper(strip(lines[k])) IN
         IF IsTotalLine(line) THEN TotalOfLine(line) ELSE TotalScan(lines, k + 1)

\* as FilenameCompany with the walmart test in front
FilenameCompany_WalmartFirst(filename) ==
    LET low == lower(filename) IN
    IF Contains(low, "walmart") THEN "WALMART"
    ELSE IF Contains(low, "starbucks") THEN "STARBUCKS"
    ELSE IF Contains(low, "mcdonalds") \/ Contains(low, "mcd") THEN "MCDONALDS"
    ELSE "UNKNOWN_STORE"

\* if not company_name: the file-name fallback
FilenameCompany(filename) ==
    LET low == lower(filename) IN
    IF Contains(low, "starbucks") THEN "STARBUCKS"
    ELSE IF Contains(low, "walmart") THEN "WALMART"
    ELSE IF Contains(low, "mcdonalds") \/ Contains(low, "mcd") THEN "MCDONALDS"
    ELSE "UNKNOWN_STORE"

\* as DefaultTotal with the placeholder of agent_1's error path
DefaultTotal_Zero(total_amount) == IF total_amount = "" THEN "0.00" ELSE total_amount

\* if not total_amount: total_amount = "10.00"
DefaultTotal(total_amount) == IF total_amount = "" THEN "10.00" ELSE total_amount

\* the outcome of a call: exc = NoExc and the returned record, or the exception raised
extract_receipt_info(content, filename) ==
    LET lines == split(strip(content))
        found == CompanyScan(lines, 1)
        total == TotalScan(lines, 1)
    IN IF total.exc # NoExc
       THEN [exc |-> total.exc, company_name |-> "", total_amount |-> ""]
       ELSE [exc |-> NoExc,
             company_name |-> IF found = "" THEN FilenameCompany(filename) ELSE found,
             total_amount |-> DefaultTotal(total.total_amount)]

(***************************************************************************)
(* Python float: IEEE-754 binary64 with round-to-nearest-even.  A value is *)
(* [neg, mag] where mag is the magnitude in units of 2^-FracBits, as a     *)
(* little-endian sequence of Width bits (mag[i] has weight                 *)
(* 2^(i-1-FracBits)).  2^-59 is the spacing of binary64 in [2^-7, 2^-6),   *)
(* the binade of 0.01, so every binary64 value that is 0 or of magnitude   *)
(* in [2^-7, 2^(Width-FracBits)) is held exactly; the amounts of the       *)
(* bounds and their sums and differences stay in that range.               *)
(***************************************************************************)
FracBits == 59

GuardBits == 5

MantissaBits == 53

Width == 86

\* the bit vector with bit i given by f[i], as a sequence
Bits(f) == SubSeq(f, 1, Width)

ZeroBits == Bits([i \in 1..Width |-> 0])

\* position of the highest 1 bit, 0 if none
TopBit(b) ==
    IF \A i \in 1..Width : b[i] = 0 THEN 0
    ELSE CHOOSE i \in 1..Width : b[i] = 1 /\ \A j \in (i + 1)..Width : b[j] = 0

\* carry into position i of a + b: generated at some j < i and propagated up to i
Carry(a, b, i) ==
    \E j \in 1..(i - 1) : a[j] = 1 /\ b[j] = 1 /\ \A k \in (j + 1)..(i - 1) : a[k] # b[k]

\* a + b, exactly
AddBits(a, b) ==
    Bits([i \in 1..Width |-> (a[i] + b[i] + (IF Carry(a, b, i) THEN 1 ELSE 0)) % 2])

\* borrow into position i of a - b
Borrow(a, b, i) ==
    \E j \in 1..(i - 1) : a[j] = 0 /\ b[j] = 1 /\ \A k \in (j + 1)..(i - 1) : a[k] = b[k]

\* a - b, exactly, for a >= b
SubBits(a, b) ==
    Bits([i \in 1..Width |-> (2 + a[i] - b[i] - (IF Borrow(a, b, i) THEN 1 ELSE 0)) % 2])

\* a > b
GreaterBits(a, b) ==
    LET D == {i \in 1..Width : a[i] # b[i]} IN
    D # {} /\ a[CHOOSE i \in D : \A j \in D : j <= i] = 1

\* round to 53 significant bits, ties to even; sticky tells that the exact
\* value lies strictly above b (bits lost before)
RoundBits(b, sticky) ==
    LET s == TopBit(b) - MantissaBits IN
    IF s <= 0 THEN b
    ELSE LET trunc == Bits([i \in 1..Width |-> IF i <= s THEN 0 ELSE b[i]])
             low == sticky \/ \E i \in 1..(s - 1) : b[i] = 1
             up == b[s] = 1 /\ (low \/ b[s + 1] = 1)
         IN IF up THEN AddBits(trunc, Bits([i \in 1..Width |-> IF i = s + 1 THEN 1 ELSE 0]))
            ELSE trunc

\* x + y on floats
fadd(x, y) ==
    IF x.neg = y.neg THEN [neg |-> x.neg, mag |-> RoundBits(AddBits(x.mag, y.mag), FALSE)]
    ELSE IF x.mag = y.mag THEN [neg |-> FALSE, mag |-> ZeroBits]
    ELSE IF GreaterBits(x.mag, y.mag)
         THEN [neg |-> x.neg, mag |-> RoundBits(SubBits(x.mag, y.mag), FALSE)]
    ELSE [neg |-> y.neg, mag |-> RoundBits(SubBits(y.mag, x.mag), FALSE)]

\* x == y on floats (-0.0 == 0.0)
feq(x, y) == x.mag = y.mag /\ (x.neg = y.neg \/ x.mag = ZeroBits)

(***************************************************************************)
(* float(s) for a str s: surrounding whitespace, an optional sign, decimal *)
(* digits with an optional fraction; anything else raises ValueError.      *)
(* Exponents, underscores, inf and nan are outside the inputs drawn here.  *)
(***************************************************************************)
DigitValue == [c \in Digits |-> CHOOSE v \in 0..9 : Ch("0123456789", v + 1) = c]

\* the integer written by a short string of digits
RECURSIVE IntOf(_, _)
IntOf(s, acc) == IF s = "" THEN acc ELSE IntOf(Tail(s), 10 * acc + DigitValue[Head(s)])

\* sign, integer digits and fraction digits of a decimal literal, or ok = FALSE
Literal(s) ==
    LET t == strip(s)
        neg == t # "" /\ Head(t) = "-"
        u == IF t # "" /\ Head(t) \in {"+", "-"} THEN Tail(t) ELSE t
        a == DigitRunEnd(u, 1)
        ip == SubSeq(u, 1, a - 1)
        hasPoint == a <= Len(u) /\ Ch(u, a) = "."
        e == IF hasPoint THEN DigitRunEnd(u, a + 1) ELSE a
        fp == IF hasPoint THEN SubSeq(u, a + 1, e - 1) ELSE ""
    IN [ok |-> e = Len(u) + 1 /\ (ip # "" \/ fp # ""), neg |-> neg, ip |-> ip, fp |-> fp]

\* Natural numbers beyond the machine integers: little-endian sequences of
\* limbs in base 2^ChunkBits.
ChunkBits == 16

Chunks == (FracBits + GuardBits) \div ChunkBits

\* n without its top limb when that limb is 0
Trim(n) == IF n # <<>> /\ n[Len(n)] = 0 THEN SubSeq(n, 1, Len(n) - 1) ELSE n

\* n * k + c for a small k and c
RECURSIVE LimbMulAdd(_, _, _)
LimbMulAdd(n, k, c) ==
    IF n = <<>> THEN <<c>>
    ELSE LET t == n[1] * k + c IN <<t % 2^ChunkBits>> \o LimbMulAdd(Tail(n), k, t \div 2^ChunkBits)

\* quotient and remainder of n by a small d
RECURSIVE LimbDivMod(_, _)
LimbDivMod(n, d) ==
    IF n = <<>> THEN [q |-> <<>>, rem |-> 0]
    ELSE LET hi == LimbDivMod(Tail(n), d)
             t == hi.rem * 2^ChunkBits + n[1]
         IN [q |-> <<t \div d>> \o hi.q, rem |-> t % d]

\* digits are taken DigitGroup at a time: 10^DigitGroup is a small number
DigitGroup == 4

\* the number written by a string of digits
RECURSIVE LimbsOf(_)
LimbsOf(s) ==
    IF Len(s) <= DigitGroup THEN <<IntOf(s, 0)>>
    ELSE Trim(LimbMulAdd(LimbsOf(SubSeq(s, 1, Len(s) - DigitGroup)), 10^DigitGroup,
                         IntOf(SubSeq(s, Len(s) - DigitGroup + 1, Len(s)), 0)))

\* floor(n / 10^k), and whether a remainder was dropped
RECURSIVE DivPow10(_, _)
DivPow10(n, k) ==
    IF k = 0 THEN [q |-> n, lost |-> FALSE]
    ELSE LET g == IF k >= DigitGroup THEN DigitGroup ELSE k
             d == LimbDivMod(n, 10^g)
             r == DivPow10(d.q, k - g)
         IN [q |-> r.q, lost |-> r.lost \/ d.rem # 0]

\* the bits of the number n
BitsOfLimbs(n) ==
    Bits([i \in 1..Width |->
             LET l == ((i - 1) \div ChunkBits) + 1 IN
             IF l <= Len(n) THEN (n[l] \div 2^((i - 1) % ChunkBits)) % 2 ELSE 0])

\* the binary64 nearest to n / 10^k, for n / 10^k < 2^(Width-FracBits-GuardBits):
\* the quotient n * 2^(FracBits+GuardBits) / 10^k, rounded to 53 bits
NearestFloat(n, k) ==
    LET d == DivPow10([i \in 1..Chunks |-> 0] \o n, k)
        r == RoundBits(BitsOfLimbs(d.q), d.lost)
    IN Bits([i \in 1..Width |-> IF i + GuardBits <= Width THEN r[i + GuardBits] ELSE 0])

float(s) ==
    LET lit == Literal(s) IN
    IF ~lit.ok THEN [exc |-> "ValueError", value |-> [neg |-> FALSE, mag |-> ZeroBits]]
    ELSE [exc |-> NoExc,
          value |-> [neg |-> lit.neg,
                     mag |-> NearestFloat(LimbsOf(lit.ip \o lit.fp), Len(lit.fp))]]

(***************************************************************************)
(* float.__repr__(x), the text json.dump writes for a float: the shortest  *)
(* decimal string float() reads back as x.  The integer digits are written *)
(* in full; the fraction digits are produced one at a time (free-format    *)
(* digit generation) and stop as soon as the digits written lie inside the *)
(* rounding interval of x, the last digit going to the nearer side.  The   *)
(* remainder r and the half-widths mp, mm of the interval are counted in   *)
(* units of 2^-(FracBits+GuardBits).                                       *)
(***************************************************************************)
Limb(n, i) == IF i <= Len(n) THEN n[i] ELSE 0

Longer(a, b) == IF Len(a) >= Len(b) THEN Len(a) ELSE Len(b)

LimbEq(a, b) == \A i \in 1..Longer(a, b) : Limb(a, i) = Limb(b, i)

\* a < b
LimbLess(a, b) ==
    LET D == {i \in 1..Longer(a, b) : Limb(a, i) # Limb(b, i)} IN
    D # {} /\ LET top == CHOOSE i \in D : \A j \in D : j <= i IN Limb(a, top) < Limb(b, top)

\* a + b
RECURSIVE LimbAddFrom(_, _, _, _)
LimbAddFrom(a, b, i, c) ==
    IF i > Longer(a, b) THEN <<c>>
    ELSE LET t == Limb(a, i) + Limb(b, i) + c IN
         <<t % 2^ChunkBits>> \o LimbAddFrom(a, b, i + 1, t \div 2^ChunkBits)

LimbAdd(a, b) == LimbAddFrom(a, b, 1, 0)

\* the number 2^e
PowerOfTwo(e) == [i \in 1..(e \div ChunkBits) |-> 0] \o <<2^(e % ChunkBits)>>

\* the number written by bits lo..hi of b
RECURSIVE BitsValue(_, _, _)
BitsValue(b, lo, hi) == IF hi < lo THEN 0 ELSE b[lo] + 2 * BitsValue(b, lo + 1, hi)

\* str(n) for an int n >= 0
RECURSIVE IntStr(_)
IntStr(n) ==
    IF n < 10 THEN Ch("0123456789", n + 1)
    ELSE IntStr(n \div 10) \o Ch("0123456789", (n % 10) + 1)

\* the fraction of mag, in units of 2^-(FracBits+GuardBits)
FractionLimbs(mag) ==
    [l \in 1..Chunks |->
        BitsValue([j \in 1..ChunkBits |->
                      LET i == (l - 1) * ChunkBits + j - GuardBits IN
                      IF i >= 1 /\ i <= FracBits THEN mag[i] ELSE 0],
                  1, ChunkBits)]

\* the digits after the point
RECURSIVE FracDigits(_, _, _, _)
FracDigits(r, mp, mm, even) ==
    LET r10 == LimbMulAdd(r, 10, 0)
        d == Limb(r10, Chunks + 1)
        r1 == SubSeq(r10, 1, Chunks)
        mp1 == Trim(LimbMulAdd(mp, 10, 0))
        mm1 == Trim(LimbMulAdd(mm, 10, 0))
        one == PowerOfTwo(Chunks * ChunkBits)
        low == LimbLess(r1, mm1) \/ (even /\ LimbEq(r1, mm1))
        high == LimbLess(one, LimbAdd(r1, mp1)) \/ (even /\ LimbEq(one, LimbAdd(r1, mp1)))
        digit(k) == Ch("0123456789", k + 1)
    IN IF ~low /\ ~high THEN digit(d) \o FracDigits(r1, mp1, mm1, even)
       ELSE IF low /\ ~high THEN digit(d)
       ELSE IF high /\ ~low THEN digit(d + 1)
       ELSE IF LimbLess(LimbMulAdd(r1, 2, 0), one) THEN digit(d) ELSE digit(d + 1)

\* as float_repr, but with two digits after the point
float_repr_TwoPlaces(x) ==
    LET cents == Limb(LimbMulAdd(FractionLimbs(x.mag), 100, 0), Chunks + 1) IN
    (IF x.neg THEN "-" ELSE "") \o IntStr(BitsValue(x.mag, FracBits + 1, Width)) \o "."
        \o Ch("0123456789", (cents \div 10) + 1) \o Ch("0123456789", (cents % 10) + 1)

float_repr(x) ==
    LET t == TopBit(x.mag)
        sign == IF x.neg THEN "-" ELSE ""
        int == IntStr(BitsValue(x.mag, FracBits + 1, Width))
        r == FractionLimbs(x.mag)
        halfUlp == t - MantissaBits - 1 + GuardBits
        powerOfTwo == \A i \in 1..(t - 1) : x.mag[i] = 0
        even == x.mag[t - MantissaBits + 1] = 0
    IN IF \A l \in 1..Chunks : r[l] = 0 THEN sign \o int \o ".0"
       ELSE sign \o int \o "." \o
            FracDigits(r, PowerOfTwo(halfUlp),
                       PowerOfTwo(IF powerOfTwo THEN halfUlp - 1 ELSE halfUlp), even)

(***************************************************************************)
(* Bounds and input vocabularies.                                          *)
(***************************************************************************)
MaxLines == 2

\* a line that is neither blank, metadata, brand, letters-only nor a total line
PadLine == "123 Main St"

\* 0, 4 or 5 pad lines in front put the drawn lines at the start of the header
\* window, across its end, and beyond it
PadChoices == {0, HeaderWindow - 1, HeaderWindow}

LineVocab ==
    { "Starbucks Coffee",
      "Walmart at McDonald's",
      "Corner Cafe",
      " Joe ",
      "Store #12 walmart",
      "  total: $15.86",
      "Subtotal: $8.75  Tax: $0.70  TOTAL: $9.45",
      "Total $5",
      "total due 3.50" }

FileNames ==
    {"starbucks_01.txt", "Walmart_receipt.txt", "MCD-7.txt", "unknown.pdf", "walmart_starbucks.txt"}

\* '\n'.join(ls)
RECURSIVE join(_)
join(ls) ==
    IF ls = <<>> THEN ""
    ELSE IF Len(ls) = 1 THEN ls[1]
    ELSE ls[1] \o "\n" \o join(Tail(ls))

LinesUpTo(n) == UNION {[1..k -> LineVocab] : k \in 0..n}

Contents == {join([i \in 1..p |-> PadLine] \o ls) : p \in PadChoices, ls \in LinesUpTo(MaxLines)}

(***************************************************************************)
(* The loop body shared by AgenticReceiptProcessor.agent_2_aggregate_data  *)
(* and ReceiptProcessingTools.aggregate_data.  A dict is the sequence of   *)
(* its (key, value) entries in insertion order, keys unique.               *)
(***************************************************************************)
EmptyDict == <<>>

Keys(d) == {d[i].key : i \in 1..Len(d)}

\* d[k] for a key k of d
Get(d, k) == d[CHOOSE i \in 1..Len(d) : d[i].key = k].value

\* d[k] = v
Put(d, k, v) ==
    IF k \in Keys(d)
    THEN [d EXCEPT ![CHOOSE i \in 1..Len(d) : d[i].key = k] = [key |-> k, value |-> v]]
    ELSE Append(d, [key |-> k, value |-> v])

\* as AggStep, but a record whose amount does not parse is skipped
AggStep_Skip(aggregated, record) ==
    LET company == record.company_name
        amount == float(record.total_amount)
    IN IF amount.exc # NoExc THEN [exc |-> NoExc, aggregated |-> aggregated]
       ELSE IF company \in Keys(aggregated)
       THEN [exc |-> NoExc,
             aggregated |-> Put(aggregated, company,
                                fadd(Get(aggregated, company), amount.value))]
       ELSE [exc |-> NoExc, aggregated |-> Put(aggregated, company, amount.value)]

\* as AggStep, but the entry of a company is overwritten instead of added to
AggStep_Overwrite(aggregated, record) ==
    LET company == record.company_name
        amount == float(record.total_amount)
    IN IF amount.exc # NoExc THEN [exc |-> amount.exc, aggregated |-> aggregated]
       ELSE [exc |-> NoExc, aggregated |-> Put(aggregated, company, amount.value)]

\* company = record['company_name']; amount = float(record['total_amount']);
\* aggregated[company] += amount, or = amount for a new company
AggStep(aggregated, record) ==
    LET company == record.company_name
        amount == float(record.total_amount)
    IN IF amount.exc # NoExc THEN [exc |-> amount.exc, aggregated |-> aggregated]
       ELSE IF company \in Keys(aggregated)
       THEN [exc |-> NoExc,
             aggregated |-> Put(aggregated, company,
                                fadd(Get(aggregated, company), amount.value))]
       ELSE [exc |-> NoExc, aggregated |-> Put(aggregated, company, amount.value)]

\* the whole loop from record i on: the final dict, or the exception that ended it
RECURSIVE AggLoop(_, _, _)
AggLoop(aggregated, rs, i) ==
    IF i > Len(rs) THEN [exc |-> NoExc, aggregated |-> aggregated]
    ELSE LET step == AggStep(aggregated, rs[i]) IN
         IF step.exc # NoExc THEN step ELSE AggLoop(step.aggregated, rs, i + 1)

(***************************************************************************)
(* json.dump(aggregated, f, indent=2) and json.load(f) on a dict from str  *)
(* to float: the text of the file, and the dict read back from such a      *)
(* text.  Of the escapes of a JSON string, those of '"' and '\' are kept.  *)
(***************************************************************************)
RECURSIVE JsonEscape(_)
JsonEscape(s) ==
    IF s = "" THEN ""
    ELSE (IF Head(s) \in {"\"", "\\"} THEN "\\" ELSE "") \o Head(s) \o JsonEscape(Tail(s))

RECURSIVE JsonUnescape(_)
JsonUnescape(s) ==
    IF s = "" THEN ""
    ELSE IF Head(s) = "\\" /\ Len(s) >= 2
         THEN Ch(s, 2) \o JsonUnescape(SubSeq(s, 3, Len(s)))
    ELSE Head(s) \o JsonUnescape(Tail(s))

JsonMember(e) == "  \"" \o JsonEscape(e.key) \o "\": " \o float_repr(e.value)

RECURSIVE JsonMembers(_, _)
JsonMembers(d, i) ==
    IF i = Len(d) THEN JsonMember(d[i])
    ELSE JsonMember(d[i]) \o ",\n" \o JsonMembers(d, i + 1)

dumps(d) == IF d = EmptyDict THEN "{}" ELSE "{\n" \o JsonMembers(d, 1) \o "\n}"

\* index of the quote that closes the JSON string whose text starts at i
RECURSIVE StringEnd(_, _)
StringEnd(s, i) ==
    IF i > Len(s) THEN i
    ELSE IF Ch(s, i) = "\\" THEN StringEnd(s, i + 2)
    ELSE IF Ch(s, i) = "\"" THEN i
    ELSE StringEnd(s, i + 1)

\* the member written on one line of the text
LoadMember(line) ==
    LET t == strip(line)
        u == IF t # "" /\ Ch(t, Len(t)) = "," THEN SubSeq(t, 1, Len(t) - 1) ELSE t
        e == StringEnd(u, 2)
    IN [key |-> JsonUnescape(SubSeq(u, 2, e - 1)),
        value |-> float(SubSeq(u, e + 2, Len(u))).value]

RECURSIVE LoadMembers(_, _, _)
LoadMembers(lines, i, d) ==
    IF i >= Len(lines) THEN d
    ELSE LET m == LoadMember(lines[i]) IN LoadMembers(lines, i + 1, Put(d, m.key, m.value))

loads(text) ==
    IF strip(text) = "{}" THEN EmptyDict ELSE LoadMembers(split(text), 2, EmptyDict)

(***************************************************************************)
(* create_sample_receipts: the four receipts of the demonstration.         *)
(***************************************************************************)
SampleStarbucks01 ==
    "STARBUCKS COFFEE\n" \o
    "Store #1234\n" \o
    "123 Main Street, Seattle WA\n" \o
    "\n" \o
    "Date: 2024-01-15  Time: 08:30\n" \o
    "Order: 1234567890\n" \o
    "\n" \o
    "Grande Pike Place Roast    $2.85\n" \o
    "Venti Caramel Macchiato   $5.95\n" \o
    "Chocolate Croissant       $3.25\n" \o
    "Cookie                    $2.50\n" \o
    "\n" \o
    "Subtotal:                $14.55\n" \o
    "Tax:                     $1.31\n" \o
    "TOTAL:                  $15.86\n" \o
    "\n" \o
    "Thank you for visiting Starbucks!"

SampleWalmart ==
    "WAL-MART SUPERCENTER\n" \o
    "SAM'S CHOICE\n" \o
    "1950 Walmart Way, Bentonville AR\n" \o
    "\n" \o
    "Date: 01/15/2024  Time: 14:22\n" \o
    "Transaction ID: 7890123456\n" \o
    "\n" \o
    "Great Value Milk 1Gal      $3.48\n" \o
    "Wonder Bread Classic       $1.98\n" \o
    "Bananas 2.1 lbs @ $0.68    $1.43\n" \o
    "Chicken Breast 1.5lbs      $7.47\n" \o
    "Orange Juice 64oz          $3.98\n" \o
    "\n" \o
    "SUBTOTAL:                 $18.34\n" \o
    "TAX:                      $1.47\n" \o
    "TOTAL:                   $19.81\n" \o
    "\n" \o
    "Items: 5  Thank you!"

SampleMcdonalds ==
    "McDonald's Restaurant\n" \o
    "Golden Arches Location\n" \o
    "456 Fast Food Blvd\n" \o
    "\n" \o
    "Order #789 - Drive Thru\n" \o
    "01/15/2024  12:15 PM\n" \o
    "\n" \o
    "Big Mac Meal Large        $9.99\n" \o
    "Apple Pie                 $1.29\n" \o
    "Small McCafe Coffee       $1.99\n" \o
    "Extra Sauce               $0.50\n" \o
    "\n" \o
    "Subtotal:                $13.77\n" \o
    "Tax:                     $1.10\n" \o
    "TOTAL:                  $14.87\n" \o
    "\n" \o
    "Thank you for choosing McDonald's!"

SampleStarbucks02 ==
    "STARBUCKS COFFEE\n" \o
    "Airport Location\n" \o
    "Terminal B, Gate 15\n" \o
    "\n" \o
    "Date: 01/16/2024  Time: 06:45\n" \o
    "Order: 2345678901\n" \o
    "\n" \o
    "Venti Pike Place          $2.95\n" \o
    "Breakfast Sandwich        $5.45\n" \o
    "Bottled Water            $2.25\n" \o
    "\n" \o
    "Subtotal:                $10.65\n" \o
    "Tax:                     $0.96\n" \o
    "TOTAL:                  $11.61\n" \o
    "\n" \o
    "Safe travels!"

\* file names in the insertion order of the receipts dict
SampleNames == <<"starbucks_01.txt", "walmart_receipt.txt", "mcdonalds_receipt.txt",
                 "starbucks_02.txt">>

SampleContent ==
    [f \in {SampleNames[k] : k \in 1..4} |->
        IF f = "starbucks_01.txt" THEN SampleStarbucks01
        ELSE IF f = "walmart_receipt.txt" THEN SampleWalmart
        ELSE IF f = "mcdonalds_receipt.txt" THEN SampleMcdonalds
        ELSE SampleStarbucks02]

\* the "company" and "total" written next to each receipt
SampleDeclared ==
    [f \in {SampleNames[k] : k \in 1..4} |->
        IF f = "starbucks_01.txt" THEN [company |-> "STARBUCKS", total |-> "15.86"]
        ELSE IF f = "walmart_receipt.txt" THEN [company |-> "WALMART", total |-> "19.81"]
        ELSE IF f = "mcdonalds_receipt.txt" THEN [company |-> "MCDONALDS", total |-> "14.87"]
        ELSE [company |-> "STARBUCKS", total |-> "11.61"]]

\* the empty directory
EmptyDir == [f \in {} |-> ""]

\* the first k sample files written into directory d
WriteSamples(d, k) ==
    [f \in DOMAIN d \cup {SampleNames[m] : m \in 1..k} |->
        IF f \in {SampleNames[m] : m \in 1..k} THEN SampleContent[f] ELSE d[f]]

(***************************************************************************)
(* Bounds and inputs of the aggregator and of agent 1.                     *)
(***************************************************************************)
MaxRecords == 3

MaxFiles == 2

Rec(c, a) == [company_name |-> c, total_amount |-> a]

RecordVocab ==
    { Rec("STARBUCKS", "0.10"), Rec("STARBUCKS", "0.20"), Rec("STARBUCKS", "0.30"),
      Rec("WALMART", "0.20"), Rec("WALMART", "15.50"), Rec("WALMART", "-5.00"),
      Rec("WALMART", "abc") }

\* the records of test_script.py / section 8 of the specification
ScenarioRecords ==
    << Rec("STARBUCKS", "15.50"), Rec("MCDONALDS", "8.75"), Rec("STARBUCKS", "12.25"),
       Rec("WALMART", "45.60"), Rec("MCDONALDS", "6.50") >>

RecordLists == {ScenarioRecords} \cup UNION {[1..k -> RecordVocab] : k \in 0..MaxRecords}

FileLists == UNION {[1..k -> {SampleNames[m] : m \in 1..4}] : k \in 0..MaxFiles}

\* the directory ./receipt_pdfs holding any subset of the sample files
Directories ==
    {[f \in S |-> SampleContent[f]] : S \in SUBSET {SampleNames[m] : m \in 1..4}}

(***************************************************************************)
(* State.                                                                  *)
(***************************************************************************)
VARIABLES
    pc,                 \* position in the running operation
    caller,             \* who called it: "api" (the operation itself) or "demo"
    ret,                \* outcome handed to the caller
    content,            \* _extract_receipt_info: parameter content
    filename,           \* _extract_receipt_info: parameter filename
    result,             \* _extract_receipt_info: outcome
    receipt_files,      \* agent_1_extract_data: parameter receipt_files
    idx,                \* loop index i of the running loop
    extracted_results,  \* agent_1_extract_data: local extracted_results
    disk,               \* ./receipt_pdfs: file name -> text
    ext_file,           \* ./output/agent1_extracted_data.json
    records,            \* agent_2_aggregate_data / aggregate_data: the records passed
    aggregated,         \* agent_2_aggregate_data: local aggregated
    agg_file,           \* ./output/agent2_aggregated_data.json
    tool_file,          \* aggregated_receipts.json
    extracted_data,     \* self.extracted_data
    aggregated_data     \* self.aggregated_data

vars == <<pc, caller, ret, content, filename, result, receipt_files, idx,
          extracted_results, disk, ext_file, records, aggregated, agg_file, tool_file,
          extracted_data, aggregated_data>>

extractVars == <<content, filename, result>>

agent1Vars == <<receipt_files, extracted_results, disk, ext_file, extracted_data>>

agent2Vars == <<records, aggregated, agg_file, aggregated_data>>

NoResult == [exc |-> "pending", company_name |-> "", total_amount |-> ""]

\* outcomes: kind is "pending", "records", "map", "text" (an error message),
\* "true", "false" or "raised"
Outcome(kind, exc, rs, m) == [kind |-> kind, exc |-> exc, records |-> rs, map |-> m]

Pending == Outcome("pending", NoExc, <<>>, EmptyDict)

\* a file that was never written
NoFile == [written |-> FALSE, records |-> <<>>, map |-> EmptyDict]

\* a file of aggregated totals that was never written; such a file holds JSON text
NoTextFile == [written |-> FALSE, text |-> ""]

\* __init__: a fresh processor, nothing called yet
Fresh ==
    /\ ret = Pending
    /\ result = NoResult
    /\ idx = 1
    /\ extracted_results = <<>>
    /\ ext_file = NoFile
    /\ aggregated = EmptyDict
    /\ agg_file = NoTextFile
    /\ tool_file = NoTextFile
    /\ extracted_data = <<>>
    /\ aggregated_data = EmptyDict

\* an exception leaving the running operation: run_complete_demo catches it and
\* returns False; any other caller receives it
Raise(exc) ==
    /\ pc' = IF caller = "demo" THEN "demo_done" ELSE "raised"
    /\ ret' = IF caller = "demo" THEN Outcome("false", exc, <<>>, EmptyDict)
              ELSE Outcome("raised", exc, <<>>, EmptyDict)

(***************************************************************************)
(* _extract_receipt_info called on its own, on every text and file name of *)
(* the bounds and on the sample receipts.                                  *)
(***************************************************************************)
InitExtract ==
    /\ Fresh
    /\ caller = "api"
    /\ disk = EmptyDir
    /\ receipt_files = <<>>
    /\ records = <<>>
    /\ pc = "extract"
    /\ \/ content \in Contents /\ filename \in FileNames
       \/ \E k \in 1..4 : filename = SampleNames[k] /\ content = SampleContent[filename]

CallExtract ==
    /\ pc = "extract"
    /\ result' = extract_receipt_info(content, filename)
    /\ pc' = "returned"
    /\ UNCHANGED <<caller, ret, content, filename, idx, agent1Vars, agent2Vars, tool_file>>

NextExtract == CallExtract

SpecExtract == InitExtract /\ [][NextExtract]_vars

(***************************************************************************)
(* agent_1_extract_data(receipt_files), one loop iteration in two steps:   *)
(* reading the file, then extracting and appending.                        *)
(***************************************************************************)
\* the record of the except branch
FallbackRecord == Rec("UNKNOWN", "0.00")

InitAgent1 ==
    /\ Fresh
    /\ caller = "api"
    /\ content = ""
    /\ filename = ""
    /\ pc = "a1_open"
    /\ records = <<>>
    /\ receipt_files \in FileLists
    /\ disk \in Directories

\* as A1Open, but a file that cannot be read leaves no record behind
A1Open_DropFailed ==
    /\ pc = "a1_open"
    /\ idx <= Len(receipt_files)
    /\ LET f == receipt_files[idx] IN
       IF f \in DOMAIN disk
       THEN /\ content' = disk[f]
            /\ filename' = f
            /\ pc' = "a1_extract"
            /\ UNCHANGED <<idx, extracted_results>>
       ELSE /\ idx' = idx + 1
            /\ UNCHANGED <<pc, content, filename, extracted_results>>
    /\ UNCHANGED <<caller, ret, result, receipt_files, disk, ext_file, extracted_data,
                   agent2Vars, tool_file>>

\* with open(filepath, 'r') as f: content = f.read(); a missing file raises and
\* the except branch appends the fallback record
A1Open ==
    /\ pc = "a1_open"
    /\ idx <= Len(receipt_files)
    /\ LET f == receipt_files[idx] IN
       IF f \in DOMAIN disk
       THEN /\ content' = disk[f]
            /\ filename' = f
            /\ pc' = "a1_extract"
            /\ UNCHANGED <<idx, extracted_results>>
       ELSE /\ extracted_results' = Append(extracted_results, FallbackRecord)
            /\ idx' = idx + 1
            /\ UNCHANGED <<pc, content, filename>>
    /\ UNCHANGED <<caller, ret, result, receipt_files, disk, ext_file, extracted_data,
                   agent2Vars, tool_file>>

\* as A1Extract, but the new record is put in front of the list
A1Extract_Prepend ==
    /\ pc = "a1_extract"
    /\ result' = extract_receipt_info(content, filename)
    /\ extracted_results' =
           <<IF result'.exc = NoExc
             THEN Rec(result'.company_name, result'.total_amount)
             ELSE FallbackRecord>> \o extracted_results
    /\ idx' = idx + 1
    /\ pc' = "a1_open"
    /\ UNCHANGED <<caller, ret, content, filename, receipt_files, disk, ext_file,
                   extracted_data, agent2Vars, tool_file>>

\* result = self._extract_receipt_info(content, filename); extracted_results.append
A1Extract ==
    /\ pc = "a1_extract"
    /\ result' = extract_receipt_info(content, filename)
    /\ extracted_results' =
           Append(extracted_results,
                  IF result'.exc = NoExc
                  THEN Rec(result'.company_name, result'.total_amount)
                  ELSE FallbackRecord)
    /\ idx' = idx + 1
    /\ pc' = "a1_open"
    /\ UNCHANGED <<caller, ret, content, filename, receipt_files, disk, ext_file,
                   extracted_data, agent2Vars, tool_file>>

\* after the loop: json.dump to the output file, self.extracted_data = ..., return;
\* open(output_file, 'w') may raise
A1Save ==
    /\ pc = "a1_open"
    /\ idx > Len(receipt_files)
    /\ \/ /\ ext_file' = [written |-> TRUE, records |-> extracted_results, map |-> EmptyDict]
          /\ extracted_data' = extracted_results
          /\ ret' = Outcome("records", NoExc, extracted_results, EmptyDict)
          /\ pc' = "a1_returned"
       \/ /\ Raise("OSError")
          /\ UNCHANGED <<ext_file, extracted_data>>
    /\ UNCHANGED <<caller, extractVars, receipt_files, idx, extracted_results, disk,
                   agent2Vars, tool_file>>

NextAgent1 == A1Open \/ A1Extract \/ A1Save

SpecAgent1 == InitAgent1 /\ [][NextAgent1]_vars

\* the extraction stage: the extractor on its own, and agent 1 around it
SpecExtraction == (InitExtract \/ InitAgent1) /\ [][NextExtract \/ NextAgent1]_vars

(***************************************************************************)
(* agent_2_aggregate_data(extracted_data), one loop iteration per step,    *)
(* and ReceiptProcessingTools.aggregate_data as a whole.                   *)
(***************************************************************************)
InitAgg ==
    /\ Fresh
    /\ caller = "api"
    /\ content = ""
    /\ filename = ""
    /\ disk = EmptyDir
    /\ receipt_files = <<>>
    /\ pc \in {"a2_call", "tool_call"}
    /\ records \in RecordLists

\* aggregated = {}
A2Begin ==
    /\ pc = "a2_call"
    /\ aggregated' = EmptyDict
    /\ idx' = 1
    /\ pc' = "a2_loop"
    /\ UNCHANGED <<caller, ret, extractVars, agent1Vars, records, agg_file,
                   aggregated_data, tool_file>>

\* as A2Record, but self.aggregated_data follows the loop record by record
A2Record_StoreEach ==
    /\ pc = "a2_loop"
    /\ idx <= Len(records)
    /\ LET step == AggStep(aggregated, records[idx]) IN
       IF step.exc = NoExc
       THEN /\ aggregated' = step.aggregated
            /\ aggregated_data' = step.aggregated
            /\ idx' = idx + 1
            /\ UNCHANGED <<pc, ret>>
       ELSE /\ Raise(step.exc)
            /\ UNCHANGED <<aggregated, aggregated_data, idx>>
    /\ UNCHANGED <<caller, extractVars, agent1Vars, records, agg_file, tool_file>>

\* for i, record in enumerate(extracted_data, 1): ... ; float() may raise
A2Record ==
    /\ pc = "a2_loop"
    /\ idx <= Len(records)
    /\ LET step == AggStep(aggregated, records[idx]) IN
       IF step.exc = NoExc
       THEN /\ aggregated' = step.aggregated
            /\ idx' = idx + 1
            /\ UNCHANGED <<pc, ret>>
       ELSE /\ Raise(step.exc)
            /\ UNCHANGED <<aggregated, idx>>
    /\ UNCHANGED <<caller, extractVars, agent1Vars, records, agg_file, aggregated_data,
                   tool_file>>

\* after the loop: json.dump to the output file, self.aggregated_data = ..., return
A2Save ==
    /\ pc = "a2_loop"
    /\ idx > Len(records)
    /\ \/ /\ agg_file' = [written |-> TRUE, text |-> dumps(aggregated)]
          /\ aggregated_data' = aggregated
          /\ ret' = Outcome("map", NoExc, <<>>, aggregated)
          /\ pc' = "a2_returned"
       \/ /\ Raise("OSError")
          /\ UNCHANGED <<agg_file, aggregated_data>>
    /\ UNCHANGED <<caller, extractVars, agent1Vars, idx, records, aggregated, tool_file>>

\* aggregate_data: extracted_data = json.loads(extracted_data_json), here the
\* records themselves; aggregated = {}
ToolBegin ==
    /\ pc = "tool_call"
    /\ aggregated' = EmptyDict
    /\ idx' = 1
    /\ pc' = "tool_loop"
    /\ UNCHANGED <<caller, ret, extractVars, agent1Vars, records, agg_file,
                   aggregated_data, tool_file>>

\* for item in extracted_data: ...; except Exception returns an error message
ToolRecord ==
    /\ pc = "tool_loop"
    /\ idx <= Len(records)
    /\ LET step == AggStep(aggregated, records[idx]) IN
       IF step.exc = NoExc
       THEN /\ aggregated' = step.aggregated
            /\ idx' = idx + 1
            /\ UNCHANGED <<pc, ret>>
       ELSE /\ ret' = Outcome("text", step.exc, <<>>, EmptyDict)
            /\ pc' = "tool_returned"
            /\ UNCHANGED <<aggregated, idx>>
    /\ UNCHANGED <<caller, extractVars, agent1Vars, records, agg_file, aggregated_data,
                   tool_file>>

\* after the loop: json.dump to aggregated_receipts.json, return json.dumps(aggregated);
\* a failing open() is turned into an error message as well
ToolSave ==
    /\ pc = "tool_loop"
    /\ idx > Len(records)
    /\ \/ /\ tool_file' = [written |-> TRUE, text |-> dumps(aggregated)]
          /\ ret' = Outcome("map", NoExc, <<>>, aggregated)
       \/ /\ ret' = Outcome("text", "OSError", <<>>, EmptyDict)
          /\ UNCHANGED tool_file
    /\ pc' = "tool_returned"
    /\ UNCHANGED <<caller, extractVars, agent1Vars, idx, records, aggregated, agg_file,
                   aggregated_data>>

\* read_json_file(filename) on the file the call that just ended was to write:
\* data = json.load(f), handed back as json.dumps(data), or an error message when
\* the file is not there
ReadJsonFile ==
    /\ caller = "api"
    /\ pc \in {"a2_returned", "tool_returned"}
    /\ LET file == IF pc = "a2_returned" THEN agg_file ELSE tool_file IN
       ret' = IF file.written
              THEN Outcome("loaded", NoExc, <<>>, loads(file.text))
              ELSE Outcome("text", "FileNotFoundError", <<>>, EmptyDict)
    /\ pc' = "read_returned"
    /\ UNCHANGED <<caller, extractVars, agent1Vars, idx, agent2Vars, tool_file>>

NextAgg == A2Begin \/ A2Record \/ A2Save \/ ToolBegin \/ ToolRecord \/ ToolSave \/ ReadJsonFile

SpecAgg == InitAgg /\ [][NextAgg]_vars

(***************************************************************************)
(* agent_2_aggregate_data called again and again on one processor, which   *)
(* agent_1_extract_data has been run on before (on one file of an empty    *)
(* directory, which left the fallback record).                             *)
(***************************************************************************)
\* the lists a later call is made with
RetryLists ==
    { <<Rec("WALMART", "abc")>>,
      <<Rec("STARBUCKS", "0.10"), Rec("WALMART", "abc")>>,
      <<Rec("WALMART", "15.50")>> }

InitAgent2 ==
    /\ caller = "api"
    /\ pc = "a2_call"
    /\ ret = Pending
    /\ content = ""
    /\ filename = ""
    /\ result = NoResult
    /\ disk = EmptyDir
    /\ receipt_files = <<"starbucks_01.txt">>
    /\ idx = 1
    /\ extracted_results = [i \in 1..Len(receipt_files) |-> FallbackRecord]
    /\ extracted_data = extracted_results
    /\ ext_file = [written |-> TRUE, records |-> extracted_results, map |-> EmptyDict]
    /\ records \in RecordLists
    /\ aggregated = EmptyDict
    /\ agg_file = NoTextFile
    /\ tool_file = NoTextFile
    /\ aggregated_data = EmptyDict

\* the caller, after a call that returned or raised, calls agent_2_aggregate_data again
A2Again ==
    /\ caller = "api"
    /\ pc \in {"a2_returned", "raised"}
    /\ records' \in RetryLists
    /\ ret' = Pending
    /\ pc' = "a2_call"
    /\ UNCHANGED <<caller, extractVars, agent1Vars, idx, aggregated, agg_file,
                   aggregated_data, tool_file>>

NextAgent2 == A2Begin \/ A2Record \/ A2Save \/ A2Again

SpecAgent2 == InitAgent2 /\ [][NextAgent2]_vars

(***************************************************************************)
(* run_complete_demo: create_sample_receipts, agent 1, agent 2, display.   *)
(***************************************************************************)
InitDemo ==
    /\ Fresh
    /\ caller = "demo"
    /\ content = ""
    /\ filename = ""
    /\ disk = EmptyDir
    /\ receipt_files = <<>>
    /\ records = <<>>
    /\ pc = "demo_call"

\* receipt_files = self.create_sample_receipts(); a failing open(filepath, 'w')
\* raises after the first k files; then agent_1_extract_data(receipt_files)
DemoCreateSamples ==
    /\ pc = "demo_call"
    /\ \/ /\ disk' = WriteSamples(disk, 4)
          /\ receipt_files' = SampleNames
          /\ extracted_results' = <<>>
          /\ idx' = 1
          /\ pc' = "a1_open"
          /\ UNCHANGED ret
       \/ \E k \in 0..3 :
             /\ disk' = WriteSamples(disk, k)
             /\ Raise("OSError")
             /\ UNCHANGED <<receipt_files, extracted_results, idx>>
    /\ UNCHANGED <<caller, extractVars, ext_file, extracted_data, agent2Vars, tool_file>>

\* aggregated_data = self.agent_2_aggregate_data(extracted_data)
DemoCallAgent2 ==
    /\ pc = "a1_returned"
    /\ caller = "demo"
    /\ records' = ret.records
    /\ pc' = "a2_call"
    /\ UNCHANGED <<caller, ret, extractVars, agent1Vars, idx, aggregated, agg_file,
                   aggregated_data, tool_file>>

\* display_agent_collaboration(); display_final_results(); return True
DemoDisplay ==
    /\ pc = "a2_returned"
    /\ caller = "demo"
    /\ ret' = Outcome("true", NoExc, <<>>, EmptyDict)
    /\ pc' = "demo_done"
    /\ UNCHANGED <<caller, extractVars, agent1Vars, idx, agent2Vars, tool_file>>

\* another process removes a receipt file while agent 1 is running
EnvRemove ==
    /\ caller = "demo"
    /\ pc \in {"a1_open", "a1_extract"}
    /\ \E f \in DOMAIN disk : disk' = [g \in DOMAIN disk \ {f} |-> disk[g]]
    /\ UNCHANGED <<pc, caller, ret, extractVars, receipt_files, idx, extracted_results,
                   ext_file, extracted_data, agent2Vars, tool_file>>

NextDemo ==
    \/ DemoCreateSamples
    \/ A1Open \/ A1Extract \/ A1Save
    \/ DemoCallAgent2
    \/ A2Begin \/ A2Record \/ A2Save
    \/ DemoDisplay
    \/ EnvRemove

SpecDemo == InitDemo /\ [][NextDemo]_vars

\* every way of using the processor
Init == InitExtract \/ InitAgent1 \/ InitAgg \/ InitDemo

Next == NextExtract \/ NextDemo \/ ToolBegin \/ ToolRecord \/ ToolSave \/ ReadJsonFile

Spec == Init /\ [][Next]_vars

(***************************************************************************)
(* Vocabulary of the properties of the field extractor.                    *)
(***************************************************************************)
Min2(a, b) == IF a <= b THEN a ELSE b

\* the stripped lines the extractor scans, and the indices of the header window
ScannedLines(text) == LET ls == split(strip(text)) IN [k \in 1..Len(ls) |-> strip(ls[k])]

HeaderIdx(ls) == 1..Min2(HeaderWindow, Len(ls))

\* substring -> canonical name, as section 4.1 of the specification lists them
CanonicalOf ==
    [b \in KnownBrands |->
        IF b = "STARBUCKS" THEN "STARBUCKS" ELSE IF b = "MCDONALD" THEN "MCDONALDS" ELSE "WALMART"]

BrandsIn(line) == {CanonicalOf[b] : b \in {x \in KnownBrands : Contains(upper(line), x)}}

\* a header line the company loop can stop at
Qualifies(line) == line # "" /\ ~IsSkipLine(line) /\ (HasBrand(line) \/ IsAlphaLine(line))

\* the indices of the lines that pass the total-line test
TotalIdx(ls) == {k \in 1..Len(ls) : IsTotalLine(upper(ls[k]))}

FirstOf(S) == CHOOSE m \in S : \A o \in S : m <= o

\* a decimal string: digits, a point, digits
IsDecimalString(s) == s # "" /\ AmountEnd(s, 1) = Len(s) + 1

Returned == pc = "returned"

(***************************************************************************)
(* C2: the field extractor never raises; for every text, the empty text    *)
(* included, and every file name it returns a record whose company_name    *)
(* and total_amount are both set.                                          *)
(***************************************************************************)
C2_ExtractorNeverFails ==
    Returned => /\ result.exc = NoExc
                /\ result.company_name # ""
                /\ result.total_amount # ""

\* the empty text, and a total line without any amount, both answered with defaults
C2_Witness ==
    /\ Returned
    /\ content = ""
    /\ result = [exc |-> NoExc, company_name |-> "UNKNOWN_STORE", total_amount |-> "10.00"]

(***************************************************************************)
(* C3 as stated: whenever a known brand appears in one of the first 5      *)
(* lines, the returned company is the canonical name of a brand appearing  *)
(* there, even when a letters-only line comes earlier.                     *)
(***************************************************************************)
C3_BrandAnywhereWins ==
    Returned =>
        LET ls == ScannedLines(content)
            brands == UNION {BrandsIn(ls[k]) : k \in HeaderIdx(ls)}
        IN brands # {} => result.company_name \in brands

(***************************************************************************)
(* C3 amended: when the first header line (first 5 lines, stripped, not    *)
(* blank, without metadata token) that contains a known brand or is a      *)
(* letters-only line longer than 3 contains a known brand, the extractor   *)
(* returns a canonical name of a brand of that line; the brand match has   *)
(* priority over the letters-only heuristic within that line only.         *)
(***************************************************************************)
C3_FirstQualifyingBrandWins ==
    Returned =>
        LET ls == ScannedLines(content)
            q == {k \in HeaderIdx(ls) : Qualifies(ls[k])}
        IN (q # {} /\ HasBrand(ls[FirstOf(q)])) =>
               result.company_name \in BrandsIn(ls[FirstOf(q)])

\* a first qualifying line that is letters-only and holds a brand: the brand is returned
C3_Witness ==
    /\ Returned
    /\ LET ls == ScannedLines(content)
           q == {k \in HeaderIdx(ls) : Qualifies(ls[k])}
       IN /\ q # {}
          /\ HasBrand(ls[FirstOf(q)])
          /\ IsAlphaLine(ls[FirstOf(q)])
          /\ result.company_name = "STARBUCKS"

(***************************************************************************)
(* C4: when the matched total line (the first line passing the total-line  *)
(* test) holds several decimal amounts, total_amount is the last of them.  *)
(***************************************************************************)
C4_LastAmountWins ==
    Returned =>
        LET ls == ScannedLines(content)
            t == TotalIdx(ls)
        IN t # {} =>
              LET amounts == findall(upper(ls[FirstOf(t)])) IN
              Len(amounts) >= 2 => result.total_amount = amounts[Len(amounts)]

\* the line of section 8 of the specification is the matched line: 9.45, not 8.75
C4_Witness ==
    /\ Returned
    /\ LET ls == ScannedLines(content)
           t == TotalIdx(ls)
       IN /\ t # {}
          /\ ls[FirstOf(t)] = "Subtotal: $8.75  Tax: $0.70  TOTAL: $9.45"
    /\ result.total_amount = "9.45"

(***************************************************************************)
(* C8: with no qualifying header line, no total line and a file name       *)
(* without brand token the record is exactly UNKNOWN_STORE / 10.00; and    *)
(* total_amount is "10.00" whenever no total was found (no total line, or  *)
(* a first total line without a decimal amount).                           *)
(***************************************************************************)
C8_Defaults ==
    Returned =>
        LET ls == ScannedLines(content)
            q == {k \in HeaderIdx(ls) : Qualifies(ls[k])}
            t == TotalIdx(ls)
            noBrandInName == \A tok \in {"starbucks", "walmart", "mcdonalds", "mcd"} :
                                 ~Contains(lower(filename), tok)
            noTotal == t = {} \/ findall(upper(ls[FirstOf(t)])) = <<>>
        IN /\ (q = {} /\ t = {} /\ noBrandInName) =>
                  result = [exc |-> NoExc, company_name |-> "UNKNOWN_STORE",
                            total_amount |-> "10.00"]
           /\ noTotal => result.total_amount = "10.00"

\* unknown.pdf with a text of pad lines only
C8_Witness ==
    /\ Returned
    /\ filename = "unknown.pdf"
    /\ content = PadLine \o "\n" \o PadLine \o "\n" \o PadLine \o "\n" \o PadLine
    /\ result = [exc |-> NoExc, company_name |-> "UNKNOWN_STORE", total_amount |-> "10.00"]

(***************************************************************************)
(* Vocabulary of the properties of the aggregator.                         *)
(***************************************************************************)
\* the call of agent_2_aggregate_data or aggregate_data has ended
AggFinished == caller = "api" /\ pc \in {"a2_returned", "tool_returned", "raised"}

\* dict equality: same keys, equal values, whatever the insertion order
DictEq(d, e) == Keys(d) = Keys(e) /\ \A k \in Keys(d) : feq(Get(d, k), Get(e, k))

\* the amount written by a decimal string with two fraction digits, in cents
Cents(s) ==
    LET neg == Head(s) = "-"
        u == IF neg THEN Tail(s) ELSE s
        n == IntOf(SubSeq(u, 1, Len(u) - 3) \o SubSeq(u, Len(u) - 1, Len(u)), 0)
    IN IF neg THEN 0 - n ELSE n

\* a string float() cannot read: it holds a character no number is written with
NonNumeric(s) == \E i \in 1..Len(s) : Ch(s, i) \notin Digits \cup {".", "+", "-", " "}

AllNumeric(rs) == \A i \in 1..Len(rs) : ~NonNumeric(rs[i].total_amount)

\* the exact sum, in cents, of the amounts of company c
RECURSIVE SumCents(_, _)
SumCents(rs, c) ==
    IF rs = <<>> THEN 0
    ELSE (IF rs[1].company_name = c THEN Cents(rs[1].total_amount) ELSE 0)
         + SumCents(Tail(rs), c)

\* the bits of b * 2^k
Shl(b, k) == Bits([i \in 1..Width |-> IF i > k THEN b[i - k] ELSE 0])

\* the bits of n * 2^FracBits
IntBits(n) ==
    Bits([i \in 1..Width |->
             LET k == i - 1 - FracBits IN
             IF k >= 0 /\ k <= 30 THEN (n \div 2^k) % 2 ELSE 0])

\* |100 * x - cents| < 1/2: x is the amount `cents` to two-decimal precision
EqualToTheCent(x, cents) ==
    LET x100 == AddBits(AddBits(Shl(x.mag, 6), Shl(x.mag, 5)), Shl(x.mag, 2))
        want == IntBits(IF cents < 0 THEN 0 - cents ELSE cents)
        diff == IF GreaterBits(x100, want) THEN SubBits(x100, want) ELSE SubBits(want, x100)
    IN /\ (x.mag # ZeroBits /\ cents # 0) => (x.neg <=> cents < 0)
       /\ TopBit(diff) <= FracBits - 1

\* the dict a literal such as {STARBUCKS: 27.75, ...} denotes
RECURSIVE DictOf(_)
DictOf(rs) ==
    IF rs = <<>> THEN EmptyDict
    ELSE Put(DictOf(SubSeq(rs, 1, Len(rs) - 1)), rs[Len(rs)].company_name,
             float(rs[Len(rs)].total_amount).value)

ScenarioTotals ==
    DictOf(<<Rec("STARBUCKS", "27.75"), Rec("MCDONALDS", "15.25"), Rec("WALMART", "45.60")>>)

\* the permutations of 1..n
Perms(n) == {f \in [1..n -> 1..n] : \A i, j \in 1..n : f[i] = f[j] => i = j}

\* aggregate(rs): the dict the loop ends with (rs all numeric)
Aggregate(rs) == AggLoop(EmptyDict, rs, 1).aggregated

\* per company, the sum of the entries of d and e; an absent company adds nothing
RECURSIVE MergeInto(_, _, _)
MergeInto(d, e, i) ==
    IF i > Len(e) THEN d
    ELSE MergeInto(Put(d, e[i].key,
                       IF e[i].key \in Keys(d) THEN fadd(Get(d, e[i].key), e[i].value)
                       ELSE e[i].value),
                   e, i + 1)

MergeSum(d, e) == MergeInto(d, e, 1)

(***************************************************************************)
(* C1: when the aggregator returns a map, its keys are the companies of    *)
(* the input records and, for each company, the entry equals the sum of    *)
(* the total_amount values of that company's records to the two-decimal    *)
(* precision of the amounts; the records of the specification's scenario   *)
(* give exactly {STARBUCKS: 27.75, MCDONALDS: 15.25, WALMART: 45.60}.      *)
(***************************************************************************)
C1_EntriesAreSums ==
    (AggFinished /\ ret.kind = "map") =>
        /\ Keys(ret.map) = {records[i].company_name : i \in 1..Len(records)}
        /\ \A c \in Keys(ret.map) : EqualToTheCent(Get(ret.map, c), SumCents(records, c))
        /\ records = ScenarioRecords => DictEq(ret.map, ScenarioTotals)

\* agent 2 has returned the map of the scenario
C1_Witness ==
    /\ AggFinished
    /\ pc = "a2_returned"
    /\ records = ScenarioRecords
    /\ ret.kind = "map"
    /\ DictEq(ret.map, ScenarioTotals)
    /\ aggregated_data = ret.map

C6_OrderInvariant ==
    (AggFinished /\ ret.kind = "map") =>
        \A p \in Perms(Len(records)) :
            DictEq(Aggregate([i \in 1..Len(records) |-> records[p[i]]]), ret.map)

(***************************************************************************)
(* C7 as stated: aggregating A ++ B yields the per-company sum of          *)
(* aggregate(A) and aggregate(B), for every split of the records into a    *)
(* prefix A and a suffix B.                                                *)
(***************************************************************************)
C7_ConcatIsMergeSum ==
    (AggFinished /\ ret.kind = "map") =>
        \A k \in 0..Len(records) :
            DictEq(ret.map,
                   MergeSum(Aggregate(SubSeq(records, 1, k)),
                            Aggregate(SubSeq(records, k + 1, Len(records)))))

(***************************************************************************)
(* C9: every record the extraction stage produces, by _extract_receipt_    *)
(* info or by agent_1_extract_data (its except branch included), has a     *)
(* non-empty upper-cased company_name and a total_amount made of digits, a *)
(* point and digits.                                                       *)
(***************************************************************************)
WellFormedRecord(r) ==
    /\ r.company_name # ""
    /\ upper(r.company_name) = r.company_name
    /\ IsDecimalString(r.total_amount)

AllWellFormed(rs) == \A i \in 1..Len(rs) : WellFormedRecord(rs[i])

C9_RecordsWellFormed ==
    /\ Returned => WellFormedRecord(result)
    /\ AllWellFormed(extracted_results)
    /\ AllWellFormed(extracted_data)
    /\ AllWellFormed(ret.records)
    /\ AllWellFormed(ext_file.records)

\* agent 1 returned the fallback record of a missing file and an extracted one
C9_Witness ==
    /\ pc = "a1_returned"
    /\ Len(extracted_data) = 2
    /\ extracted_data[1] = FallbackRecord
    /\ extracted_data[2].company_name = "WALMART"
    /\ ret.records = extracted_data

(***************************************************************************)
(* C10: in run_complete_demo the documents are processed one at a time,    *)
(* document i only after documents 1..i-1 each left their record; agent 2  *)
(* starts only when every document has its record, and it is handed        *)
(* exactly the records agent 1 produced.                                   *)
(***************************************************************************)
InAgent1 == pc \in {"a1_open", "a1_extract"}

InAgent2 == pc \in {"a2_call", "a2_loop", "a2_returned"}

C10_Sequential ==
    caller = "demo" =>
        /\ InAgent1 =>
              /\ idx <= Len(receipt_files) + 1
              /\ Len(extracted_results) = idx - 1
              /\ pc = "a1_extract" => idx <= Len(receipt_files) /\ filename = receipt_files[idx]
        /\ InAgent2 =>
              /\ Len(extracted_results) = Len(receipt_files)
              /\ Len(receipt_files) = 4
              /\ extracted_data = extracted_results
              /\ records = extracted_results
              /\ ext_file.written

\* agent 2 half way through four records, one of them of a file that had vanished
C10_Witness ==
    /\ caller = "demo"
    /\ pc = "a2_loop"
    /\ idx = 3
    /\ Len(records) = 4
    /\ records[2] = FallbackRecord
    /\ records[1].company_name = "STARBUCKS"

(***************************************************************************)
(* C11: the list agent_1_extract_data writes and returns has one record    *)
(* per input file, in the order of the input list: record i is the record  *)
(* of the extractor for file i when the file could be read, and the        *)
(* fallback record when it could not.                                      *)
(***************************************************************************)
\* the record agent 1 owes for file f of directory d
RecordFor(d, f) ==
    IF f \in DOMAIN d
    THEN LET r == extract_receipt_info(d[f], f) IN Rec(r.company_name, r.total_amount)
    ELSE FallbackRecord

C11_OneRecordPerFileInOrder ==
    (caller = "api" /\ pc = "a1_returned") =>
        /\ Len(ret.records) = Len(receipt_files)
        /\ \A i \in 1..Len(receipt_files) : ret.records[i] = RecordFor(disk, receipt_files[i])
        /\ ext_file.written
        /\ ext_file.records = ret.records

\* two files, the first missing and the second read
C11_Witness ==
    /\ caller = "api"
    /\ pc = "a1_returned"
    /\ Len(receipt_files) = 2
    /\ receipt_files[1] \notin DOMAIN disk
    /\ receipt_files[2] \in DOMAIN disk
    /\ ret.records[1] = FallbackRecord
    /\ ret.records[2] # FallbackRecord
    /\ ext_file.records = ret.records

(***************************************************************************)
(* C12 as stated: a missing source file is reported to the caller of the   *)
(* extraction stage as an error outcome; agent_1_extract_data does not     *)
(* return a list in which the absent file stands as an ordinary record.    *)
(***************************************************************************)
A1Finished == caller = "api" /\ pc \in {"a1_returned", "raised"}

MissingFiles == {i \in 1..Len(receipt_files) : receipt_files[i] \notin DOMAIN disk}

C12_MissingFileReported ==
    (A1Finished /\ MissingFiles # {}) =>
        /\ ret.kind = "raised"
        /\ ret.records = <<>>
        /\ ~ext_file.written

(***************************************************************************)
(* C13 as stated: every value of the map the aggregator returns is a       *)
(* non-negative total and every company name is a key exactly once, for    *)
(* every list of records the aggregator accepts.                           *)
(***************************************************************************)
NonNegative(x) == ~x.neg \/ x.mag = ZeroBits

C13_NonNegativeTotals ==
    (AggFinished /\ ret.kind = "map") =>
        /\ \A i \in 1..Len(ret.map) : NonNegative(ret.map[i].value)
        /\ \A i, j \in 1..Len(ret.map) : ret.map[i].key = ret.map[j].key => i = j

(***************************************************************************)
(* C14: the map read back by json.load from the aggregated-totals file     *)
(* that json.dump wrote equals the map that was written: same companies,   *)
(* and for each company the same float.                                    *)
(***************************************************************************)
C14_RoundTrip ==
    (pc = "read_returned" /\ ret.kind = "loaded") => DictEq(ret.map, aggregated)

\* a total that needs 17 significant digits went through the file of the tool
C14_Witness ==
    /\ pc = "read_returned"
    /\ ret.kind = "loaded"
    /\ tool_file.written
    /\ tool_file.text = "{\n  \"STARBUCKS\": 0.30000000000000004,\n  \"WALMART\": -5.0\n}"
    /\ Len(ret.map) = 2
    /\ feq(Get(ret.map, "STARBUCKS"), Get(aggregated, "STARBUCKS"))

(***************************************************************************)
(* C15 as stated: on each sample receipt of create_sample_receipts the     *)
(* extractor returns the company and the total declared next to it, the    *)
(* amount of the TOTAL line and not that of the Subtotal line.             *)
(***************************************************************************)
OnSample == Returned /\ filename \in DOMAIN SampleContent /\ content = SampleContent[filename]

C15_SamplesAsDeclared ==
    OnSample =>
        /\ result.company_name = SampleDeclared[filename].company
        /\ result.total_amount = SampleDeclared[filename].total

(***************************************************************************)
(* C16: the total scan stops at the first line, top to bottom, that holds  *)
(* `TOTAL:` in any case or starts with `TOTAL` and holds `$`; total_amount *)
(* is decided by that line alone: it is an amount of that line or, the     *)
(* line holding none, the default, and it is the same when the text ends   *)
(* with that line.                                                         *)
(***************************************************************************)
MatchesTotal(line) ==
    Contains(upper(line), "TOTAL:") \/ (startswith(upper(line), "TOTAL") /\ Contains(line, "$"))

FirstTotal(ls) == FirstOf({k \in 1..Len(ls) : MatchesTotal(ls[k])})

HasTotal(ls) == \E k \in 1..Len(ls) : MatchesTotal(ls[k])

C16_FirstTotalLineDecides ==
    Returned =>
        LET ls == ScannedLines(content) IN
        HasTotal(ls) =>
            LET k == FirstTotal(ls)
                amounts == findall(ls[k])
            IN /\ result.total_amount \in
                      (IF amounts = <<>> THEN {"10.00"} ELSE {amounts[i] : i \in 1..Len(amounts)})
               /\ result.total_amount =
                      extract_receipt_info(join(SubSeq(ls, 1, k)), filename).total_amount

\* two total lines with different amounts: the first one is returned
C16_Witness ==
    /\ Returned
    /\ LET ls == ScannedLines(content) IN
       /\ Len(ls) = 2
       /\ ls[1] = "total: $15.86"
       /\ ls[2] = "Subtotal: $8.75  Tax: $0.70  TOTAL: $9.45"
    /\ result.total_amount = "15.86"

(***************************************************************************)
(* Vocabulary of C17 to C20: the tests of the specification on a line,     *)
(* written out.                                                            *)
(***************************************************************************)
Metadata(line) ==
    \E tok \in {"date:", "time:", "order:", "store #", "transaction"} : Contains(lower(line), tok)

BrandLine(line) ==
    \E b \in {"STARBUCKS", "WAL-MART", "WALMART", "MCDONALD"} : Contains(upper(line), b)

\* letters, spaces and hyphens only, a letter among them, longer than 3
LettersLine(line) ==
    /\ Len(line) > 3
    /\ \A i \in 1..Len(line) : Ch(line, i) \in LowerSet \cup UpperSet \cup {" ", "-"}
    /\ \E i \in 1..Len(line) : Ch(line, i) \in LowerSet \cup UpperSet

\* the lines of the header window the company scan can stop at
Candidates(ls) ==
    {k \in HeaderIdx(ls) : ls[k] # "" /\ ~Metadata(ls[k]) /\ (BrandLine(ls[k]) \/ LettersLine(ls[k]))}

\* the company a file name stands for
FileNameBrand(fn) ==
    IF Contains(lower(fn), "starbucks") THEN "STARBUCKS"
    ELSE IF Contains(lower(fn), "walmart") THEN "WALMART"
    ELSE IF Contains(lower(fn), "mcdonalds") \/ Contains(lower(fn), "mcd") THEN "MCDONALDS"
    ELSE "UNKNOWN_STORE"

(***************************************************************************)
(* C17: the company scan takes the first candidate line of the first 5     *)
(* lines and stops: when that line holds no known brand, its upper-cased   *)
(* text is the company name, whatever brand a later line holds.            *)
(***************************************************************************)
C17_FirstCandidateWins ==
    Returned =>
        LET ls == ScannedLines(content)
            c == Candidates(ls)
        IN (c # {} /\ ~BrandLine(ls[FirstOf(c)])) => result.company_name = upper(ls[FirstOf(c)])

\* a letters-only line in front of a brand line
C17_Witness ==
    /\ Returned
    /\ LET ls == ScannedLines(content) IN
       /\ Len(ls) = 2
       /\ ls[1] = "Corner Cafe"
       /\ ls[2] = "Starbucks Coffee"
    /\ result.company_name = "CORNER CAFE"

(***************************************************************************)
(* C18: a company name taken from the text comes from one of the first 5   *)
(* lines and from a line without metadata token: the name is the one the   *)
(* first candidate line alone gives, and with no candidate line the name   *)
(* is the one of the file name, even when a metadata line or a line beyond *)
(* the fifth holds a known brand.                                          *)
(***************************************************************************)
C18_OnlyHeaderNonMetadataLines ==
    Returned =>
        LET ls == ScannedLines(content)
            c == Candidates(ls)
        IN IF c = {} THEN result.company_name = FileNameBrand(filename)
           ELSE result.company_name =
                    extract_receipt_info(ls[FirstOf(c)], filename).company_name

\* brands on a metadata line, the fifth, and on the sixth line: neither is taken
C18_Witness ==
    /\ Returned
    /\ filename = "unknown.pdf"
    /\ LET ls == ScannedLines(content) IN
       /\ Len(ls) = 6
       /\ ls[5] = "Store #12 walmart"
       /\ ls[6] = "Starbucks Coffee"
    /\ result.company_name = "UNKNOWN_STORE"

(***************************************************************************)
(* C19: the file name decides the company only when the text scan found    *)
(* none: then the first of the tokens starbucks, walmart, mcdonalds/mcd    *)
(* the lower-cased file name holds gives the brand, UNKNOWN_STORE if none; *)
(* when the text scan found a name, every file name gives the same result. *)
(***************************************************************************)
C19_FileNameFallback ==
    Returned =>
        LET ls == ScannedLines(content) IN
        IF Candidates(ls) = {} THEN result.company_name = FileNameBrand(filename)
        ELSE \A fn \in FileNames :
                 extract_receipt_info(content, fn).company_name = result.company_name

\* no candidate line, and a file name holding two tokens: starbucks is tried first
C19_Witness ==
    /\ Returned
    /\ Candidates(ScannedLines(content)) = {}
    /\ filename = "walmart_starbucks.txt"
    /\ result.company_name = "STARBUCKS"

(***************************************************************************)
(* C20: when the first line passing the total-line test holds no decimal   *)
(* amount, total_amount is the default "10.00", even when a later total    *)
(* line holds an amount.                                                   *)
(***************************************************************************)
C20_EmptyFirstTotalLineGivesDefault ==
    Returned =>
        LET ls == ScannedLines(content) IN
        (HasTotal(ls) /\ findall(ls[FirstTotal(ls)]) = <<>>) => result.total_amount = "10.00"

\* `Total $5` in front of a total line with an amount
C20_Witness ==
    /\ Returned
    /\ LET ls == ScannedLines(content) IN
       /\ Len(ls) = 2
       /\ ls[1] = "Total $5"
       /\ ls[2] = "total: $15.86"
    /\ result.total_amount = "10.00"

(***************************************************************************)
(* C21: a call of agent_2_aggregate_data that fails on a non-numeric       *)
(* amount leaves no trace: from the call to the ValueError no step changes *)
(* self.aggregated_data, self.extracted_data or the aggregated output      *)
(* file; and self.aggregated_data only ever changes at the end of a        *)
(* complete pass over records that are all numeric, to the map of that     *)
(* pass, together with the file.                                           *)
(***************************************************************************)
InA2Call == pc \in {"a2_call", "a2_loop"}

C21_FailureLeavesNoTrace ==
    [][ /\ (InA2Call /\ pc' # "a2_returned") =>
               UNCHANGED <<aggregated_data, extracted_data, agg_file>>
        /\ (InA2Call /\ pc' = "raised" /\ ret'.exc = "ValueError") =>
               /\ ~AllNumeric(records)
               /\ ret'.map = EmptyDict
        /\ aggregated_data' # aggregated_data =>
               /\ pc = "a2_loop"
               /\ pc' = "a2_returned"
               /\ idx = Len(records) + 1
               /\ AllNumeric(records)
               /\ DictEq(aggregated_data', Aggregate(records))
               /\ agg_file'.text = dumps(aggregated_data')
      ]_vars

\* a second call failed on its second record: the map and the file of the first
\* call and the records of agent 1 are still there
C21_Witness ==
    /\ pc = "raised"
    /\ ret.exc = "ValueError"
    /\ records = <<Rec("STARBUCKS", "0.10"), Rec("WALMART", "abc")>>
    /\ idx = 2
    /\ Len(aggregated) = 1
    /\ Keys(aggregated_data) = {"WALMART"}
    /\ agg_file.written
    /\ agg_file.text = dumps(aggregated_data)
    /\ extracted_data = <<FallbackRecord>>

====
